---- MODULE Spec2Model ----
(***************************************************************************)
(* lambda_handler of src/lambda_handler.py: the API Gateway -> AgentCore   *)
(* adapter, one invocation at a time.                                      *)
(*                                                                         *)
(* A Python str is a sequence of code points, a Python bytes object a      *)
(* sequence of 0..255.  Text literals below are written as code points;    *)
(* the comment beside each gives the text.                                 *)
(***************************************************************************)
EXTENDS Integers, Sequences, FiniteSets, TLC

\* ------------------------------------------------------------------------
\* Outcomes of library calls: a value, or a raised exception.
NoExc == [type |-> "", msg |-> <<>>]
Ok(v) == [ok |-> TRUE, val |-> v, exc |-> NoExc]
Raise(type, msg) == [ok |-> FALSE, val |-> <<>>, exc |-> [type |-> type, msg |-> msg]]

\* ------------------------------------------------------------------------
\* Python values (the JSON data model; numbers are integers): a pair of the
\* type's name and the value.
VNone == <<"NoneType", 0>>
VBool(b) == <<"bool", b>>
VInt(n) == <<"int", n>>
VStr(s) == <<"str", s>>
VList(xs) == <<"list", xs>>
\* A dict: its items in insertion order, keys unique.
VDict(items) == <<"dict", items>>

\* bool(v)
Truthy(v) ==
  CASE v[1] = "NoneType" -> FALSE
    [] v[1] = "bool" -> v[2]
    [] v[1] = "int" -> v[2] # 0
    [] OTHER -> Len(v[2]) > 0

\* key in d, for a dict d
HasKey(d, key) == \E i \in 1..Len(d[2]) : d[2][i][1] = key

\* d.get(key, default), for a dict d
DictGet(d, key, default) ==
  IF HasKey(d, key)
    THEN d[2][CHOOSE i \in 1..Len(d[2]) : d[2][i][1] = key][2]
    ELSE default

\* d[key] = val on a dict's items: a present key keeps its place
DictSet(items, key, val) ==
  IF \E i \in 1..Len(items) : items[i][1] = key
    THEN [i \in 1..Len(items) |-> IF items[i][1] = key THEN <<key, val>> ELSE items[i]]
    ELSE Append(items, <<key, val>>)

\* s.find(sub) >= 0, for two str
IsSubstring(sub, s) ==
  \E i \in 0..(Len(s) - Len(sub)) : SubSeq(s, i + 1, i + Len(sub)) = sub

\* type(v).__name__ as text
TypeName(v) ==
  CASE v[1] = "NoneType" -> <<78, 111, 110, 101, 84, 121, 112, 101>> (* NoneType *)
    [] v[1] = "bool" -> <<98, 111, 111, 108>> (* bool *)
    [] v[1] = "int" -> <<105, 110, 116>> (* int *)
    [] v[1] = "str" -> <<115, 116, 114>> (* str *)
    [] v[1] = "list" -> <<108, 105, 115, 116>> (* list *)
    [] OTHER -> <<100, 105, 99, 116>> (* dict *)

\* The least member of a set of integers
Min(S) == CHOOSE i \in S : \A j \in S : i <= j

\* The first index from `from` on at which s holds a member of C, Len(s) + 1 if none
FirstOf(s, from, C) ==
  LET S == {i \in from..Len(s) : s[i] \in C} IN IF S = {} THEN Len(s) + 1 ELSE Min(S)

\* The first index from `from` on at which s holds no member of C, Len(s) + 1 if none
FirstNotOf(s, from, C) ==
  LET S == {i \in from..Len(s) : s[i] \notin C} IN IF S = {} THEN Len(s) + 1 ELSE Min(S)

\* ------------------------------------------------------------------------
\* Number formatting.
RECURSIVE DigitsOf(_)
DigitsOf(n) == IF n < 10 THEN <<48 + n>> ELSE DigitsOf(n \div 10) \o <<48 + (n % 10)>>

\* str(n) of an int
IntToText(n) == IF n < 0 THEN <<45>> \o DigitsOf(0 - n) ELSE DigitsOf(n)

HexDigit(d) == IF d < 10 THEN 48 + d ELSE 87 + d

\* '%02x' % b
Hex2(b) == <<HexDigit(b \div 16), HexDigit(b % 16)>>

\* '%04x' % n
Hex4(n) == Hex2(n \div 256) \o Hex2(n % 256)

\* ------------------------------------------------------------------------
\* base64.b64decode(s) with validate=False: binascii.a2b_base64, non-strict.

\* table_a2b_base64: the sextet of an alphabet character, 64 for any other
B64Value(c) ==
  CASE c >= 65 /\ c <= 90 -> c - 65
    [] c >= 97 /\ c <= 122 -> c - 71
    [] c >= 48 /\ c <= 57 -> c + 4
    [] c = 43 -> 62
    [] c = 47 -> 63
    [] OTHER -> 64

\* binascii.a2b_base64(s), non-strict.  The scan keeps the position q in the
\* current quad (the alphabet characters read so far, mod 4) and counts the
\* pads since the last alphabet character; characters outside the alphabet are
\* skipped, and a pad that completes the quad (q >= 2 and q + pads >= 4) ends
\* the scan.  Each quad of sextets gives three bytes.
A2bBase64(s) ==
  LET data == {i \in 1..Len(s) : B64Value(s[i]) < 64}
      q(i) == Cardinality({j \in data : j < i}) % 4
      pads(i) == Cardinality({j \in 1..i : s[j] = 61 /\ \A k \in data : k < j \/ k > i})
      stops == {i \in 1..Len(s) : s[i] = 61 /\ q(i) >= 2 /\ q(i) + pads(i) >= 4}
      stop == IF stops = {} THEN Len(s) + 1 ELSE Min(stops)
      sextets == SelectSeq([i \in 1..Len(s) |-> IF i < stop THEN B64Value(s[i]) ELSE 64],
                           LAMBDA x : x < 64)
      n == Len(sextets)
      nbytes == (3 * (n \div 4)) + (IF n % 4 = 2 THEN 1 ELSE IF n % 4 = 3 THEN 2 ELSE 0)
      byte(k) ==
        LET g == 4 * ((k - 1) \div 3)
            r == (k - 1) % 3
        IN  CASE r = 0 -> (sextets[g + 1] * 4) + (sextets[g + 2] \div 16)
              [] r = 1 -> ((sextets[g + 2] % 16) * 16) + (sextets[g + 3] \div 4)
              [] OTHER -> ((sextets[g + 3] % 4) * 64) + sextets[g + 4]
  IN  IF stops = {} /\ n % 4 = 1
        THEN Raise("binascii.Error",
                   <<73, 110, 118, 97, 108, 105, 100, 32, 98, 97, 115, 101, 54, 52, 45, 101, 110, 99, 111, 100, 101, 100, 32, 115, 116, 114, 105, 110, 103, 58, 32, 110, 117, 109, 98, 101, 114, 32, 111, 102, 32, 100, 97, 116, 97, 32, 99, 104, 97, 114, 97, 99, 116, 101, 114, 115, 32, 40>> (* Invalid base64-encoded string: number of data characters ( *)
                   \o IntToText(((nbytes \div 3) * 4) + 1)
                   \o <<41, 32, 99, 97, 110, 110, 111, 116, 32, 98, 101, 32, 49, 32, 109, 111, 114, 101, 32, 116, 104, 97, 110, 32, 97, 32, 109, 117, 108, 116, 105, 112, 108, 101, 32, 111, 102, 32, 52>> (* ) cannot be 1 more than a multiple of 4 *))
      ELSE IF stops = {} /\ n % 4 # 0
        THEN Raise("binascii.Error", <<73, 110, 99, 111, 114, 114, 101, 99, 116, 32, 112, 97, 100, 100, 105, 110, 103>> (* Incorrect padding *))
      ELSE Ok([k \in 1..nbytes |-> byte(k)])

\* base64.b64decode(v) of a Python value: a str is first encoded as ASCII
B64Decode(v) ==
  IF v[1] # "str"
    THEN Raise("TypeError",
               <<97, 114, 103, 117, 109, 101, 110, 116, 32, 115, 104, 111, 117, 108, 100, 32, 98, 101, 32, 97, 32, 98, 121, 116, 101, 115, 45, 108, 105, 107, 101, 32, 111, 98, 106, 101, 99, 116, 32, 111, 114, 32, 65, 83, 67, 73, 73, 32, 115, 116, 114, 105, 110, 103, 44, 32, 110, 111, 116, 32, 39>> (* argument should be a bytes-like object or ASCII string, not ' *)
               \o TypeName(v) \o <<39>> (* ' *))
    ELSE IF \E i \in 1..Len(v[2]) : v[2][i] > 127
      THEN Raise("ValueError", <<115, 116, 114, 105, 110, 103, 32, 97, 114, 103, 117, 109, 101, 110, 116, 32, 115, 104, 111, 117, 108, 100, 32, 99, 111, 110, 116, 97, 105, 110, 32, 111, 110, 108, 121, 32, 65, 83, 67, 73, 73, 32, 99, 104, 97, 114, 97, 99, 116, 101, 114, 115>> (* string argument should contain only ASCII characters *))
      ELSE A2bBase64(v[2])

\* base64.b64encode of bytes (what a gateway does to a body it marks encoded)
B64Char(x) ==
  CASE x < 26 -> 65 + x
    [] x < 52 -> 71 + x
    [] x < 62 -> x - 4
    [] x = 62 -> 43
    [] OTHER -> 47

B64Encode(b) ==
  LET n == Len(b)
      at(i) == IF i <= n THEN b[i] ELSE 0
      char(k) ==
        LET g == 3 * ((k - 1) \div 4)
            r == (k - 1) % 4
        IN  CASE r = 0 -> B64Char(at(g + 1) \div 4)
              [] r = 1 -> B64Char(((at(g + 1) % 4) * 16) + (at(g + 2) \div 16))
              [] r = 2 -> IF g + 2 > n THEN 61
                          ELSE B64Char(((at(g + 2) % 16) * 4) + (at(g + 3) \div 64))
              [] OTHER -> IF g + 3 > n THEN 61 ELSE B64Char(at(g + 3) % 64)
  IN  [k \in 1..(4 * ((n + 2) \div 3)) |-> char(k)]

\* ------------------------------------------------------------------------
\* bytes.decode('utf-8').

IsCont(b, i) == i <= Len(b) /\ b[i] >= 128 /\ b[i] <= 191

\* UnicodeDecodeError over bytes i..j (1-based) of b
Utf8Error(b, i, j, reason) ==
  Raise("UnicodeDecodeError",
        <<39, 117, 116, 102, 45, 56, 39, 32, 99, 111, 100, 101, 99, 32, 99, 97, 110, 39, 116, 32, 100, 101, 99, 111, 100, 101, 32>> (* 'utf-8' codec can't decode  *)
        \o (IF i = j
              THEN <<98, 121, 116, 101, 32, 48, 120>> (* byte 0x *) \o Hex2(b[i]) \o <<32, 105, 110, 32, 112, 111, 115, 105, 116, 105, 111, 110, 32>> (*  in position  *) \o IntToText(i - 1)
              ELSE <<98, 121, 116, 101, 115, 32, 105, 110, 32, 112, 111, 115, 105, 116, 105, 111, 110, 32>> (* bytes in position  *) \o IntToText(i - 1) \o <<45>> (* - *) \o IntToText(j - 1))
        \o <<58, 32>> (* :  *) \o reason)

\* The bounds of the second byte of a multi-byte sequence led by c
Utf8SecondLo(c) == IF c = 224 THEN 160 ELSE IF c = 240 THEN 144 ELSE 128
\* (errors = 'surrogatepass' lets an encoded surrogate through)
Utf8SecondHi(c, surrogatepass) ==
  IF c = 237 /\ ~surrogatepass THEN 159 ELSE IF c = 244 THEN 143 ELSE 191

RECURSIVE Utf8Scan(_, _, _, _)
Utf8Scan(b, i, acc, surrogatepass) ==
  IF i > Len(b) THEN Ok(acc)
  ELSE IF b[i] < 128
    THEN \* a run of ASCII bytes decodes to itself
         LET j == FirstNotOf(b, i, 0..127)
         IN  Utf8Scan(b, j, acc \o SubSeq(b, i, j - 1), surrogatepass)
  ELSE LET c == b[i]
           n == CASE c < 128 -> 1
                  [] c >= 194 /\ c <= 223 -> 2
                  [] c >= 224 /\ c <= 239 -> 3
                  [] c >= 240 /\ c <= 244 -> 4
                  [] OTHER -> 0
       IN  CASE n = 0 -> Utf8Error(b, i, i, <<105, 110, 118, 97, 108, 105, 100, 32, 115, 116, 97, 114, 116, 32, 98, 121, 116, 101>> (* invalid start byte *))
             [] n = 1 -> Utf8Scan(b, i + 1, Append(acc, c), surrogatepass)
             [] OTHER ->
                 \* the continuation bytes that are present and valid
                 LET secondOk == i + 1 <= Len(b) /\ b[i + 1] >= Utf8SecondLo(c)
                                 /\ b[i + 1] <= Utf8SecondHi(c, surrogatepass)
                     good == IF ~secondOk THEN 0
                             ELSE IF n = 2 \/ ~IsCont(b, i + 2) THEN 1
                             ELSE IF n = 3 \/ ~IsCont(b, i + 3) THEN 2
                             ELSE 3
                 IN  IF good = n - 1
                       THEN Utf8Scan(b, i + n,
                              Append(acc,
                                CASE n = 2 -> ((c - 192) * 64) + (b[i + 1] - 128)
                                  [] n = 3 -> ((c - 224) * 4096) + ((b[i + 1] - 128) * 64)
                                              + (b[i + 2] - 128)
                                  [] OTHER -> ((c - 240) * 262144) + ((b[i + 1] - 128) * 4096)
                                              + ((b[i + 2] - 128) * 64) + (b[i + 3] - 128)),
                              surrogatepass)
                       ELSE IF i + good + 1 > Len(b)
                         THEN Utf8Error(b, i, i + good, <<117, 110, 101, 120, 112, 101, 99, 116, 101, 100, 32, 101, 110, 100, 32, 111, 102, 32, 100, 97, 116, 97>> (* unexpected end of data *))
                         ELSE Utf8Error(b, i, i + good, <<105, 110, 118, 97, 108, 105, 100, 32, 99, 111, 110, 116, 105, 110, 117, 97, 116, 105, 111, 110, 32, 98, 121, 116, 101>> (* invalid continuation byte *))

\* b.decode('utf-8')
Utf8Decode(b) == Utf8Scan(b, 1, <<>>, FALSE)

\* b.decode('utf-8', 'surrogatepass')
Utf8DecodeSurrogatepass(b) == Utf8Scan(b, 1, <<>>, TRUE)

\* str.encode('utf-8') of text without surrogates
RECURSIVE Utf8Encode(_)
Utf8Encode(s) ==
  IF Len(s) = 0 THEN <<>>
  ELSE IF s[1] < 128
    THEN \* a run of ASCII characters encodes to itself
         LET j == FirstNotOf(s, 1, 0..127)
         IN  SubSeq(s, 1, j - 1) \o Utf8Encode(SubSeq(s, j, Len(s)))
  ELSE LET c == s[1]
       IN  (CASE c < 2048 -> <<192 + (c \div 64), 128 + (c % 64)>>
              [] c < 65536 -> <<224 + (c \div 4096), 128 + ((c \div 64) % 64), 128 + (c % 64)>>
              [] OTHER -> <<240 + (c \div 262144), 128 + ((c \div 4096) % 64),
                            128 + ((c \div 64) % 64), 128 + (c % 64)>>)
           \o Utf8Encode(Tail(s))

\* ------------------------------------------------------------------------
\* json.loads: the scanner of json.decoder / json.scanner.  Indices are
\* 0-based as in the library.  Number literals are integers.

PR(val, end) == [ok |-> TRUE, val |-> val, end |-> end]
PE(stem, pos) == [ok |-> FALSE, stem |-> stem, pos |-> pos]

\* The character at index idx, -1 past the end
At(s, idx) == IF idx >= 0 /\ idx < Len(s) THEN s[idx + 1] ELSE -1

\* s[idx:idx+len(lit)] == lit
HasAt(s, idx, lit) == \A k \in 1..Len(lit) : At(s, idx + k - 1) = lit[k]

IsWs(c) == c \in {32, 9, 10, 13}

RECURSIVE SkipWs(_, _)
SkipWs(s, idx) == IF IsWs(At(s, idx)) THEN SkipWs(s, idx + 1) ELSE idx

IsDigit(c) == c >= 48 /\ c <= 57

HexVal(c) ==
  CASE c >= 48 /\ c <= 57 -> c - 48
    [] c >= 97 /\ c <= 102 -> c - 87
    [] c >= 65 /\ c <= 70 -> c - 55
    [] OTHER -> -1

\* The character a one-letter escape stands for, -1 if it is none
SimpleEscape(e) ==
  CASE e = 34 -> 34
    [] e = 92 -> 92
    [] e = 47 -> 47
    [] e = 98 -> 8
    [] e = 102 -> 12
    [] e = 110 -> 10
    [] e = 114 -> 13
    [] e = 116 -> 9
    [] OTHER -> -1

\* scanstring(s, begin), strict; i is the index being read
RECURSIVE ScanStr(_, _, _, _)
ScanStr(s, begin, i, acc) ==
  LET c == At(s, i)
      e == At(s, i + 1)
  IN  CASE c = -1 -> PE(<<85, 110, 116, 101, 114, 109, 105, 110, 97, 116, 101, 100, 32, 115, 116, 114, 105, 110, 103, 32, 115, 116, 97, 114, 116, 105, 110, 103, 32, 97, 116>> (* Unterminated string starting at *), begin - 1)
        [] c = 34 -> PR(acc, i + 1)
        [] c >= 0 /\ c < 32 -> PE(<<73, 110, 118, 97, 108, 105, 100, 32, 99, 111, 110, 116, 114, 111, 108, 32, 99, 104, 97, 114, 97, 99, 116, 101, 114, 32, 97, 116>> (* Invalid control character at *), i)
        [] c = 92 /\ e = -1 -> PE(<<85, 110, 116, 101, 114, 109, 105, 110, 97, 116, 101, 100, 32, 115, 116, 114, 105, 110, 103, 32, 115, 116, 97, 114, 116, 105, 110, 103, 32, 97, 116>> (* Unterminated string starting at *), begin - 1)
        [] c = 92 /\ e = 117 ->
             IF \A k \in 2..5 : HexVal(At(s, i + k)) >= 0
               THEN ScanStr(s, begin, i + 6,
                      Append(acc, (HexVal(At(s, i + 2)) * 4096) + (HexVal(At(s, i + 3)) * 256)
                                  + (HexVal(At(s, i + 4)) * 16) + HexVal(At(s, i + 5))))
               ELSE PE(<<73, 110, 118, 97, 108, 105, 100, 32, 92, 117, 88, 88, 88, 88, 32, 101, 115, 99, 97, 112, 101>> (* Invalid \\uXXXX escape *), i + 1)
        [] c = 92 /\ SimpleEscape(e) >= 0 ->
             ScanStr(s, begin, i + 2, Append(acc, SimpleEscape(e)))
        [] c = 92 -> PE(<<73, 110, 118, 97, 108, 105, 100, 32, 92, 101, 115, 99, 97, 112, 101>> (* Invalid \\escape *), i)
        [] OTHER -> \* a run of characters that stand for themselves
                    LET j == FirstOf(s, i + 1, (0..31) \cup {34, 92})
                    IN  ScanStr(s, begin, j - 1, acc \o SubSeq(s, i + 1, j - 1))

\* The digits from idx on: [val, end]
RECURSIVE ScanDigits(_, _, _)
ScanDigits(s, idx, acc) ==
  IF IsDigit(At(s, idx))
    THEN ScanDigits(s, idx + 1, (acc * 10) + (At(s, idx) - 48))
    ELSE [val |-> acc, end |-> idx]

\* _match_number: -?(0|[1-9][0-9]*)
ScanNumber(s, start) ==
  LET neg == At(s, start) = 45
      idx == IF neg THEN start + 1 ELSE start
      c == At(s, idx)
  IN  IF c >= 49 /\ c <= 57
        THEN LET d == ScanDigits(s, idx, 0)
             IN  PR(VInt(IF neg THEN 0 - d.val ELSE d.val), d.end)
        ELSE IF c = 48 THEN PR(VInt(0), idx + 1)
        ELSE PE(<<69, 120, 112, 101, 99, 116, 105, 110, 103, 32, 118, 97, 108, 117, 101>> (* Expecting value *), start)

RECURSIVE ScanOnce(_, _)
RECURSIVE ObjLoop(_, _, _)
RECURSIVE ArrLoop(_, _, _)

\* JSONObject, idx just past the brace
ParseObject(s, idx0) ==
  LET idx == SkipWs(s, idx0)
  IN  IF At(s, idx) = 125 THEN PR(VDict(<<>>), idx + 1) ELSE ObjLoop(s, idx, <<>>)

ObjLoop(s, idx, items) ==
  IF At(s, idx) # 34
    THEN PE(<<69, 120, 112, 101, 99, 116, 105, 110, 103, 32, 112, 114, 111, 112, 101, 114, 116, 121, 32, 110, 97, 109, 101, 32, 101, 110, 99, 108, 111, 115, 101, 100, 32, 105, 110, 32, 100, 111, 117, 98, 108, 101, 32, 113, 117, 111, 116, 101, 115>> (* Expecting property name enclosed in double quotes *), idx)
    ELSE LET k == ScanStr(s, idx + 1, idx + 1, <<>>)
         IN  IF ~k.ok THEN k
             ELSE LET i1 == SkipWs(s, k.end)
                  IN  IF At(s, i1) # 58 THEN PE(<<69, 120, 112, 101, 99, 116, 105, 110, 103, 32, 39, 58, 39, 32, 100, 101, 108, 105, 109, 105, 116, 101, 114>> (* Expecting ':' delimiter *), i1)
                      ELSE LET v == ScanOnce(s, SkipWs(s, i1 + 1))
                           IN  IF ~v.ok THEN v
                               ELSE LET i3 == SkipWs(s, v.end)
                                        items2 == DictSet(items, k.val, v.val)
                                    IN  IF At(s, i3) = 125 THEN PR(VDict(items2), i3 + 1)
                                        ELSE IF At(s, i3) # 44
                                          THEN PE(<<69, 120, 112, 101, 99, 116, 105, 110, 103, 32, 39, 44, 39, 32, 100, 101, 108, 105, 109, 105, 116, 101, 114>> (* Expecting ',' delimiter *), i3)
                                          ELSE ObjLoop(s, SkipWs(s, i3 + 1), items2)

\* JSONArray, idx just past the bracket
ParseArray(s, idx0) ==
  LET idx == SkipWs(s, idx0)
  IN  IF At(s, idx) = 93 THEN PR(VList(<<>>), idx + 1) ELSE ArrLoop(s, idx, <<>>)

ArrLoop(s, idx, xs) ==
  LET v == ScanOnce(s, idx)
  IN  IF ~v.ok THEN v
      ELSE LET i1 == SkipWs(s, v.end)
               xs2 == Append(xs, v.val)
           IN  IF At(s, i1) = 93 THEN PR(VList(xs2), i1 + 1)
               ELSE IF At(s, i1) # 44 THEN PE(<<69, 120, 112, 101, 99, 116, 105, 110, 103, 32, 39, 44, 39, 32, 100, 101, 108, 105, 109, 105, 116, 101, 114>> (* Expecting ',' delimiter *), i1)
               ELSE ArrLoop(s, SkipWs(s, i1 + 1), xs2)

\* scan_once(s, idx)
ScanOnce(s, idx) ==
  LET c == At(s, idx)
  IN  CASE c = 34 -> LET r == ScanStr(s, idx + 1, idx + 1, <<>>)
                     IN  IF r.ok THEN PR(VStr(r.val), r.end) ELSE r
        [] c = 123 -> ParseObject(s, idx + 1)
        [] c = 91 -> ParseArray(s, idx + 1)
        [] c = 110 /\ HasAt(s, idx, <<110, 117, 108, 108>> (* null *)) -> PR(VNone, idx + 4)
        [] c = 116 /\ HasAt(s, idx, <<116, 114, 117, 101>> (* true *)) -> PR(VBool(TRUE), idx + 4)
        [] c = 102 /\ HasAt(s, idx, <<102, 97, 108, 115, 101>> (* false *)) -> PR(VBool(FALSE), idx + 5)
        [] OTHER -> ScanNumber(s, idx)

\* str(JSONDecodeError(msg, doc, pos))
JsonError(stem, doc, pos) ==
  LET before == {i \in 1..pos : doc[i] = 10}
      lineno == Cardinality(before) + 1
      colno == IF before = {} THEN pos + 1
               ELSE pos - ((CHOOSE i \in before : \A j \in before : j <= i) - 1)
  IN  Raise("JSONDecodeError",
            stem \o <<58, 32, 108, 105, 110, 101, 32>> (* : line  *) \o IntToText(lineno) \o <<32, 99, 111, 108, 117, 109, 110, 32>> (*  column  *) \o IntToText(colno)
            \o <<32, 40, 99, 104, 97, 114, 32>> (*  (char  *) \o IntToText(pos) \o <<41>> (* ) *))

\* JSONDecoder.decode(s)
JsonDecode(s) ==
  LET r == ScanOnce(s, SkipWs(s, 0))
  IN  IF ~r.ok THEN JsonError(r.stem, s, r.pos)
      ELSE LET end == SkipWs(s, r.end)
           IN  IF end # Len(s) THEN JsonError(<<69, 120, 116, 114, 97, 32, 100, 97, 116, 97>> (* Extra data *), s, end) ELSE Ok(r.val)

\* json.loads(s) of a str
JsonLoadsStr(s) ==
  IF Len(s) > 0 /\ s[1] = 65279
    THEN JsonError(<<85, 110, 101, 120, 112, 101, 99, 116, 101, 100, 32, 85, 84, 70, 45, 56, 32, 66, 79, 77, 32, 40, 100, 101, 99, 111, 100, 101, 32, 117, 115, 105, 110, 103, 32, 117, 116, 102, 45, 56, 45, 115, 105, 103, 41>> (* Unexpected UTF-8 BOM (decode using utf-8-sig) *), s, 0)
    ELSE JsonDecode(s)

\* json.loads(b) of bytes: detect_encoding, decode, then as for a str.
\* (UTF-16 and UTF-32 detection is left out: no 0x00, 0xFE 0xFF or 0xFF 0xFE in
\* the first four bytes of the inputs.)
JsonLoadsBytes(b) ==
  LET sig == Len(b) >= 3 /\ SubSeq(b, 1, 3) = <<239, 187, 191>>
      d == Utf8DecodeSurrogatepass(IF sig THEN SubSeq(b, 4, Len(b)) ELSE b)
  IN  IF d.ok THEN JsonLoadsStr(d.val) ELSE d

\* json.loads(v) of a Python value that is not bytes
JsonLoads(v) ==
  IF v[1] = "str" THEN JsonLoadsStr(v[2])
  ELSE Raise("TypeError",
             <<116, 104, 101, 32, 74, 83, 79, 78, 32, 111, 98, 106, 101, 99, 116, 32, 109, 117, 115, 116, 32, 98, 101, 32, 115, 116, 114, 44, 32, 98, 121, 116, 101, 115, 32, 111, 114, 32, 98, 121, 116, 101, 97, 114, 114, 97, 121, 44, 32, 110, 111, 116, 32>> (* the JSON object must be str, bytes or bytearray, not  *) \o TypeName(v))

\* ------------------------------------------------------------------------
\* json.dumps(v, ensure_ascii=...), default separators.

EscapeChar(c, ensureAscii) ==
  CASE c = 34 -> <<92, 34>> (* \\\" *)
    [] c = 92 -> <<92, 92>> (* \\\\ *)
    [] c = 10 -> <<92, 110>> (* \\n *)
    [] c = 13 -> <<92, 114>> (* \\r *)
    [] c = 9 -> <<92, 116>> (* \\t *)
    [] c = 8 -> <<92, 98>> (* \\b *)
    [] c = 12 -> <<92, 102>> (* \\f *)
    [] c < 32 -> <<92, 117>> (* \\u *) \o Hex4(c)
    [] ensureAscii /\ c > 126 /\ c < 65536 -> <<92, 117>> (* \\u *) \o Hex4(c)
    [] ensureAscii /\ c >= 65536 ->
         <<92, 117>> (* \\u *) \o Hex4(55296 + ((c - 65536) \div 1024))
         \o <<92, 117>> (* \\u *) \o Hex4(56320 + ((c - 65536) % 1024))
    [] OTHER -> <<c>>

\* Whether json.dumps writes c as itself
PlainChar(c, ensureAscii) == c >= 32 /\ c # 34 /\ c # 92 /\ (c <= 126 \/ ~ensureAscii)

RECURSIVE EscapeText(_, _)
EscapeText(s, ensureAscii) ==
  IF Len(s) = 0 THEN <<>>
  ELSE IF PlainChar(s[1], ensureAscii)
    THEN \* a run of characters written as themselves
         LET S == {i \in 1..Len(s) : ~PlainChar(s[i], ensureAscii)}
             j == IF S = {} THEN Len(s) + 1 ELSE Min(S)
         IN  SubSeq(s, 1, j - 1) \o EscapeText(SubSeq(s, j, Len(s)), ensureAscii)
  ELSE EscapeChar(s[1], ensureAscii) \o EscapeText(Tail(s), ensureAscii)

EncodeStr(s, ensureAscii) == <<34>> (* \" *) \o EscapeText(s, ensureAscii) \o <<34>> (* \" *)

RECURSIVE JsonDumps(_, _)
RECURSIVE DumpItems(_, _, _)
RECURSIVE DumpElems(_, _, _)

DumpItems(items, i, ensureAscii) ==
  IF i > Len(items) THEN <<>>
  ELSE (IF i > 1 THEN <<44, 32>> (* ,  *) ELSE <<>>)
       \o EncodeStr(items[i][1], ensureAscii) \o <<58, 32>> (* :  *)
       \o JsonDumps(items[i][2], ensureAscii)
       \o DumpItems(items, i + 1, ensureAscii)

DumpElems(xs, i, ensureAscii) ==
  IF i > Len(xs) THEN <<>>
  ELSE (IF i > 1 THEN <<44, 32>> (* ,  *) ELSE <<>>)
       \o JsonDumps(xs[i], ensureAscii) \o DumpElems(xs, i + 1, ensureAscii)

JsonDumps(v, ensureAscii) ==
  CASE v[1] = "NoneType" -> <<110, 117, 108, 108>> (* null *)
    [] v[1] = "bool" -> IF v[2] THEN <<116, 114, 117, 101>> (* true *) ELSE <<102, 97, 108, 115, 101>> (* false *)
    [] v[1] = "int" -> IntToText(v[2])
    [] v[1] = "str" -> EncodeStr(v[2], ensureAscii)
    [] v[1] = "list" -> <<91>> (* [ *) \o DumpElems(v[2], 1, ensureAscii) \o <<93>> (* ] *)
    [] OTHER -> <<123>> (* { *) \o DumpItems(v[2], 1, ensureAscii) \o <<125>> (* } *)

\* ------------------------------------------------------------------------
\* Names and literals of lambda_handler.

KBody == <<98, 111, 100, 121>> (* body *)
KIsBase64Encoded == <<105, 115, 66, 97, 115, 101, 54, 52, 69, 110, 99, 111, 100, 101, 100>> (* isBase64Encoded *)
KPrompt == <<112, 114, 111, 109, 112, 116>> (* prompt *)
KPermissionMode == <<112, 101, 114, 109, 105, 115, 115, 105, 111, 110, 95, 109, 111, 100, 101>> (* permission_mode *)
KAllowedTools == <<97, 108, 108, 111, 119, 101, 100, 95, 116, 111, 111, 108, 115>> (* allowed_tools *)
KInput == <<105, 110, 112, 117, 116>> (* input *)
KStatusCode == <<115, 116, 97, 116, 117, 115, 67, 111, 100, 101>> (* statusCode *)
KHeaders == <<104, 101, 97, 100, 101, 114, 115>> (* headers *)
KError == <<101, 114, 114, 111, 114>> (* error *)
KRuntimeArn == <<65, 71, 69, 78, 84, 67, 79, 82, 69, 95, 82, 85, 78, 84, 73, 77, 69, 95, 65, 82, 78>> (* AGENTCORE_RUNTIME_ARN *)

DefaultPermissionMode == VStr(<<97, 99, 99, 101, 112, 116, 69, 100, 105, 116, 115>> (* acceptEdits *))
DefaultAllowedTools == VStr(<<66, 97, 115, 104, 44, 82, 101, 97, 100, 44, 87, 114, 105, 116, 101, 44, 82, 101, 112, 108, 97, 99, 101, 44, 83, 101, 97, 114, 99, 104, 44, 76, 105, 115, 116, 44, 87, 101, 98, 70, 101, 116, 99, 104, 44, 65, 115, 107, 70, 111, 108, 108, 111, 119, 117, 112>> (* Bash,Read,Write,Replace,Search,List,WebFetch,AskFollowup *))
MissingPromptMessage == VStr(<<77, 105, 115, 115, 105, 110, 103, 32, 114, 101, 113, 117, 105, 114, 101, 100, 32, 102, 105, 101, 108, 100, 58, 32, 112, 114, 111, 109, 112, 116>> (* Missing required field: prompt *))
JsonContentType == <<<<67, 111, 110, 116, 101, 110, 116, 45, 84, 121, 112, 101>> (* Content-Type *), VStr(<<97, 112, 112, 108, 105, 99, 97, 116, 105, 111, 110, 47, 106, 115, 111, 110>> (* application/json *))>>
CorsHeader == <<<<65, 99, 99, 101, 115, 115, 45, 67, 111, 110, 116, 114, 111, 108, 45, 65, 108, 108, 111, 119, 45, 79, 114, 105, 103, 105, 110>> (* Access-Control-Allow-Origin *), VStr(<<42>> (* * *))>>

\* A local not yet assigned
Unset == <<"unset", 0>>

\* key in v, for any Python value v
Contains(v, key) ==
  CASE v[1] = "dict" -> Ok(HasKey(v, key))
    [] v[1] = "list" -> Ok(\E i \in 1..Len(v[2]) : v[2][i][1] = "str" /\ v[2][i][2] = key)
    [] v[1] = "str" -> Ok(IsSubstring(key, v[2]))
    [] OTHER -> Raise("TypeError",
                      <<97, 114, 103, 117, 109, 101, 110, 116, 32, 111, 102, 32, 116, 121, 112, 101, 32, 39>> (* argument of type ' *) \o TypeName(v) \o <<39, 32, 105, 115, 32, 110, 111, 116, 32, 105, 116, 101, 114, 97, 98, 108, 101>> (* ' is not iterable *))

\* v.get: the AttributeError of a value that is no dict
NoGet(v) ==
  Raise("AttributeError", <<39>> (* ' *) \o TypeName(v) \o <<39, 32, 111, 98, 106, 101, 99, 116, 32, 104, 97, 115, 32, 110, 111, 32, 97, 116, 116, 114, 105, 98, 117, 116, 101, 32, 39, 103, 101, 116, 39>> (* ' object has no attribute 'get' *))

\* The body parsed as JSON whatever isBase64Encoded says
ParseBodyResultPlainOnly(ev) ==
  LET has == Contains(ev, KBody)
  IN  IF ~has.ok THEN has
      ELSE IF ~has.val THEN Ok(ev)
      ELSE IF ev[1] # "dict" THEN NoGet(ev)
      ELSE JsonLoads(DictGet(ev, KBody, VNone))

\* Lines 29-36: the payload of an event
ParseBodyResult(ev) ==
  LET has == Contains(ev, KBody)
  IN  IF ~has.ok THEN has
      ELSE IF ~has.val THEN Ok(ev)
      ELSE IF ev[1] # "dict" THEN NoGet(ev)
      ELSE IF Truthy(DictGet(ev, KIsBase64Encoded, VBool(FALSE)))
        THEN LET raw == B64Decode(DictGet(ev, KBody, VNone))
             IN  IF raw.ok THEN JsonLoadsBytes(raw.val) ELSE raw
        ELSE JsonLoads(DictGet(ev, KBody, VNone))

\* Line 39: body.get('prompt')
PromptResult(b) == IF b[1] = "dict" THEN Ok(DictGet(b, KPrompt, VNone)) ELSE NoGet(b)

\* Lines 41-45: the response of the validation return
MissingPromptResponse ==
  VDict(<< <<KStatusCode, VInt(400)>>,
           <<KHeaders, VDict(<<JsonContentType>>)>>,
           <<KBody, VStr(JsonDumps(VDict(<< <<KError, MissingPromptMessage>> >>), TRUE))>> >>)

\* `body.get(k) or default` in place of `body.get(k, default)`: a falsy value
\* of the caller is replaced
AgentcorePayloadOrDefault(b, p) ==
  LET get(k, default) ==
        IF Truthy(DictGet(b, k, VNone)) THEN DictGet(b, k, VNone) ELSE default
  IN  VDict(<< <<KInput,
                 VDict(<< <<KPrompt, p>>,
                          <<KPermissionMode, get(KPermissionMode, DefaultPermissionMode)>>,
                          <<KAllowedTools, get(KAllowedTools, DefaultAllowedTools)>> >>)>> >>)

\* Lines 47-57: agentcore_payload
AgentcorePayload(b, p) ==
  VDict(<< <<KInput,
             VDict(<< <<KPrompt, p>>,
                      <<KPermissionMode, DictGet(b, KPermissionMode, DefaultPermissionMode)>>,
                      <<KAllowedTools, DictGet(b, KAllowedTools, DefaultAllowedTools)>> >>)>> >>)

\* Line 60: os.environ['AGENTCORE_RUNTIME_ARN']
RuntimeArnResult(env) ==
  IF HasKey(env, KRuntimeArn) THEN Ok(DictGet(env, KRuntimeArn, VNone))
  ELSE Raise("KeyError", <<39>> (* ' *) \o KRuntimeArn \o <<39>> (* ' *))

\* Lines 62-65: the arguments of client.invoke_agent
InvokeArguments(arn, payload) ==
  [agentRuntimeArn |-> arn, inputText |-> JsonDumps(payload, TRUE)]

\* event['chunk']['bytes'] in place of .get('bytes', b''): a chunk without
\* bytes raises KeyError
FragmentResultBytesRequired(frag, res) ==
  IF ~frag.hasChunk THEN Ok(res)
  ELSE IF ~frag.hasBytes THEN Raise("KeyError", <<39, 98, 121, 116, 101, 115, 39>> (* 'bytes' *))
  ELSE IF Len(frag.bytes) = 0 THEN Ok(res)
  ELSE LET text == Utf8Decode(frag.bytes)
       IN  IF text.ok THEN JsonLoadsStr(text.val) ELSE text

\* result.update(...) in place of result = ...: the chunks are merged
FragmentResultMerge(frag, res) ==
  IF ~frag.hasChunk \/ ~frag.hasBytes \/ Len(frag.bytes) = 0 THEN Ok(res)
  ELSE LET text == Utf8Decode(frag.bytes)
           new == IF text.ok THEN JsonLoadsStr(text.val) ELSE text
           RECURSIVE Update(_, _, _)
           Update(items, more, i) ==
             IF i > Len(more) THEN items
             ELSE Update(DictSet(items, more[i][1], more[i][2]), more, i + 1)
       IN  IF new.ok /\ new.val[1] = "dict" /\ res[1] = "dict"
             THEN Ok(VDict(Update(res[2], new.val[2], 1)))
             ELSE new

\* A chunk that does not decode is skipped
FragmentResultSkipBad(frag, res) ==
  IF ~frag.hasChunk \/ ~frag.hasBytes \/ Len(frag.bytes) = 0 THEN Ok(res)
  ELSE LET text == Utf8Decode(frag.bytes)
           new == IF text.ok THEN JsonLoadsStr(text.val) ELSE text
       IN  IF new.ok THEN new ELSE Ok(res)

\* Lines 72-75: the result after one event of the stream; frag is
\* [hasChunk, hasBytes, bytes], bytes being event['chunk'].get('bytes', b'')
FragmentResult(frag, res) ==
  IF ~frag.hasChunk THEN Ok(res)
  ELSE LET chunk_data == IF frag.hasBytes THEN frag.bytes ELSE <<>>
       IN  IF Len(chunk_data) = 0 THEN Ok(res)
           ELSE LET text == Utf8Decode(chunk_data)
                IN  IF text.ok THEN JsonLoadsStr(text.val) ELSE text

\* Lines 78-85: the success response
SuccessResponse(res) ==
  VDict(<< <<KStatusCode, VInt(200)>>,
           <<KHeaders, VDict(<<JsonContentType, CorsHeader>>)>>,
           <<KBody, VStr(JsonDumps(res, FALSE))>> >>)

\* `except ValueError` in place of `except Exception`
CatchesValueErrorOnly(e) ==
  e.type \in {"ValueError", "binascii.Error", "UnicodeDecodeError", "JSONDecodeError"}

\* Line 87: except Exception catches every exception the handler's calls raise
Catches(e) ==
  e.type \in {"TypeError", "AttributeError", "ValueError", "binascii.Error",
              "UnicodeDecodeError", "JSONDecodeError", "KeyError", "ClientError",
              "EventStreamError"}

\* A fixed message in place of str(e)
ErrorResponseGeneric(e) ==
  VDict(<< <<KStatusCode, VInt(500)>>,
           <<KHeaders, VDict(<<JsonContentType>>)>>,
           <<KBody, VStr(JsonDumps(VDict(<< <<KError, VStr(<<73, 110, 116, 101, 114, 110, 97, 108, 32, 115, 101, 114, 118, 101, 114, 32, 101, 114, 114, 111, 114>> (* Internal server error *))>> >>),
                                   TRUE))>> >>)

\* A malformed request answered as the caller's error
ErrorResponseBadRequest(e) ==
  VDict(<< <<KStatusCode,
             VInt(IF e.type \in {"JSONDecodeError", "binascii.Error"} THEN 400 ELSE 500)>>,
           <<KHeaders, VDict(<<JsonContentType>>)>>,
           <<KBody, VStr(JsonDumps(VDict(<< <<KError, VStr(e.msg)>> >>), TRUE))>> >>)

\* Lines 89-93: the response of the generic handler
ErrorResponse(e) ==
  VDict(<< <<KStatusCode, VInt(500)>>,
           <<KHeaders, VDict(<<JsonContentType>>)>>,
           <<KBody, VStr(JsonDumps(VDict(<< <<KError, VStr(e.msg)>> >>), TRUE))>> >>)

\* ------------------------------------------------------------------------
\* The inputs of an invocation.

\* The longest stream the remote client answers with
MaxFragments == 3

\* Payload texts a gateway may carry in `body`
TextHi == <<123, 34, 112, 114, 111, 109, 112, 116, 34, 58, 32, 34, 104, 105, 34, 125>> (* {\"prompt\": \"hi\"} *)
TextFull == <<123, 34, 112, 114, 111, 109, 112, 116, 34, 58, 32, 34, 120, 34, 44, 32, 34, 112, 101, 114, 109, 105, 115, 115, 105, 111, 110, 95, 109, 111, 100, 101, 34, 58, 32, 34, 112, 108, 97, 110, 34, 44, 32, 34, 97, 108, 108, 111, 119, 101, 100, 95, 116, 111, 111, 108, 115, 34, 58, 32, 34, 66, 97, 115, 104, 44, 82, 101, 97, 100, 34, 125>> (* {\"prompt\": \"x\", \"permission_mode\": \"plan\", \"allowed_tools\": \"Bash,Read\"} *)
TextOddTypes == <<123, 34, 112, 114, 111, 109, 112, 116, 34, 58, 32, 34, 104, 105, 34, 44, 32, 34, 112, 101, 114, 109, 105, 115, 115, 105, 111, 110, 95, 109, 111, 100, 101, 34, 58, 32, 110, 117, 108, 108, 44, 32, 34, 97, 108, 108, 111, 119, 101, 100, 95, 116, 111, 111, 108, 115, 34, 58, 32, 91, 34, 66, 97, 115, 104, 34, 93, 125>> (* {\"prompt\": \"hi\", \"permission_mode\": null, \"allowed_tools\": [\"Bash\"]} *)
TextAccent == <<123, 34, 112, 114, 111, 109, 112, 116, 34, 58, 32, 34, 104, 233, 34, 125>> (* {\"prompt\": \"h\u00e9\"} *)
TextNumberPrompt == <<123, 34, 112, 114, 111, 109, 112, 116, 34, 58, 32, 55, 125>> (* {\"prompt\": 7} *)
TextEmptyPrompt == <<123, 34, 112, 114, 111, 109, 112, 116, 34, 58, 32, 34, 34, 44, 32, 34, 112, 101, 114, 109, 105, 115, 115, 105, 111, 110, 95, 109, 111, 100, 101, 34, 58, 32, 34, 112, 108, 97, 110, 34, 125>> (* {\"prompt\": \"\", \"permission_mode\": \"plan\"} *)
TextNoPrompt == <<123, 125>> (* {} *)
TextNullPrompt == <<123, 34, 112, 114, 111, 109, 112, 116, 34, 58, 32, 110, 117, 108, 108, 125>> (* {\"prompt\": null} *)
TextZeroPrompt == <<123, 34, 112, 114, 111, 109, 112, 116, 34, 58, 32, 48, 125>> (* {\"prompt\": 0} *)
TextList == <<91, 93>> (* [] *)
TextNull == <<110, 117, 108, 108>> (* null *)
TextTruncated == <<123, 34, 112, 114, 111, 109, 112, 116, 34, 58>> (* {\"prompt\": *)
TextBom == <<65279, 123, 34, 112, 114, 111, 109, 112, 116, 34, 58, 32, 34, 104, 105, 34, 125>> (* \ufeff{\"prompt\": \"hi\"} *)

PayloadTexts ==
  {TextHi, TextFull, TextOddTypes, TextAccent, TextNumberPrompt, TextEmptyPrompt,
   TextNoPrompt, TextNullPrompt, TextZeroPrompt, TextList, TextNull, TextTruncated,
   TextBom}

\* The event API Gateway builds around a payload text
Envelope(text, mode) ==
  IF mode = "base64"
    THEN VDict(<< <<KBody, VStr(B64Encode(Utf8Encode(text)))>>,
                  <<KIsBase64Encoded, VBool(TRUE)>> >>)
    ELSE VDict(<< <<KBody, VStr(text)>>, <<KIsBase64Encoded, VBool(FALSE)>> >>)

NoGateway == [text |-> <<>>, mode |-> "none"]

\* Direct invocations and events no gateway builds from a payload text
DirectHi == VDict(<< <<KPrompt, VStr(<<104, 105>> (* hi *))>> >>)
DirectFull ==
  VDict(<< <<KPrompt, VStr(<<120>> (* x *))>>, <<KPermissionMode, VStr(<<112, 108, 97, 110>> (* plan *))>>,
           <<KAllowedTools, VStr(<<66, 97, 115, 104, 44, 82, 101, 97, 100>> (* Bash,Read *))>> >>)
DirectOddTypes ==
  VDict(<< <<KPrompt, VList(<<VInt(1)>>)>>, <<KPermissionMode, VInt(0)>>,
           <<KAllowedTools, VNone>> >>)
DirectEmptyPrompt == VDict(<< <<KPrompt, VStr(<<>>)>>, <<KAllowedTools, VStr(<<66, 97, 115, 104>> (* Bash *))>> >>)
DirectFalsePrompt == VDict(<< <<KPrompt, VBool(FALSE)>> >>)
DirectListPrompt == VDict(<< <<KPrompt, VList(<<>>)>> >>)
DirectNoPrompt == VDict(<< <<KPermissionMode, VStr(<<112, 108, 97, 110>> (* plan *))>> >>)

OtherEvents ==
  {DirectHi, DirectFull, DirectOddTypes, DirectEmptyPrompt, DirectFalsePrompt,
   DirectListPrompt, DirectNoPrompt,
   \* events that are no mapping
   VNone, VInt(5), VList(<<>>), VList(<<VStr(KBody)>>), VStr(<<116, 104, 101, 32, 98, 111, 100, 121>> (* the body *)),
   \* a body with no isBase64Encoded beside it
   VDict(<< <<KBody, VStr(TextHi)>> >>),
   \* a body that is no str
   VDict(<< <<KBody, VNone>> >>),
   VDict(<< <<KBody, VNone>>, <<KIsBase64Encoded, VBool(TRUE)>> >>),
   VDict(<< <<KBody, DirectHi>> >>),
   \* a body marked encoded that is no base64 of UTF-8 JSON
   VDict(<< <<KBody, VStr(<<101, 121, 74, 119, 99, 109, 57, 116, 99, 72, 81, 105, 79, 105, 65, 105, 97, 71, 107, 105, 102, 81>> (* eyJwcm9tcHQiOiAiaGkifQ *))>>, <<KIsBase64Encoded, VBool(TRUE)>> >>),
   VDict(<< <<KBody, VStr(<<104, 233>> (* h\u00e9 *))>>, <<KIsBase64Encoded, VBool(TRUE)>> >>),
   VDict(<< <<KBody, VStr(B64Encode(<<123, 255, 125>>))>>, <<KIsBase64Encoded, VBool(TRUE)>> >>),
   \* a plain body with a truthy flag that is no bool
   VDict(<< <<KBody, VStr(TextHi)>>, <<KIsBase64Encoded, VStr(<<102, 97, 108, 115, 101>> (* false *))>> >>)}

\* os.environ, with and without the runtime identifier
Environs ==
  {VDict(<< <<KRuntimeArn, VStr(<<97, 114, 110, 58, 97, 119, 115, 58, 98, 101, 100, 114, 111, 99, 107, 45, 97, 103, 101, 110, 116, 99, 111, 114, 101, 58, 117, 115, 45, 101, 97, 115, 116, 45, 49, 58, 49, 58, 114, 117, 110, 116, 105, 109, 101, 47, 114>> (* arn:aws:bedrock-agentcore:us-east-1:1:runtime/r *))>> >>),
   VDict(<<>>)}

\* What client.invoke_agent does: raises, or returns a response
NoOutcome == [kind |-> "none", exc |-> NoExc, completion |-> FALSE]
InvokeOutcomes ==
  {[kind |-> "raise", completion |-> FALSE,
    exc |-> [type |-> "ClientError",
             msg |-> <<65, 110, 32, 101, 114, 114, 111, 114, 32, 111, 99, 99, 117, 114, 114, 101, 100, 32, 40, 65, 99, 99, 101, 115, 115, 68, 101, 110, 105, 101, 100, 69, 120, 99, 101, 112, 116, 105, 111, 110, 41, 32, 119, 104, 101, 110, 32, 99, 97, 108, 108, 105, 110, 103, 32, 116, 104, 101, 32, 73, 110, 118, 111, 107, 101, 65, 103, 101, 110, 116, 32, 111, 112, 101, 114, 97, 116, 105, 111, 110, 58, 32, 100, 101, 110, 105, 101, 100>> (* An error occurred (AccessDeniedException) when calling the InvokeAgent operation: denied *)]],
   [kind |-> "raise", completion |-> FALSE,
    exc |-> [type |-> "ValueError", msg |-> <<98, 97, 100, 32, 34, 97, 114, 110, 34, 32, 92, 32, 99, 97, 102, 233, 10>> (* bad \"arn\" \\ caf\u00e9\n *)]],
   [kind |-> "response", completion |-> TRUE, exc |-> NoExc],
   [kind |-> "response", completion |-> FALSE, exc |-> NoExc]}

\* The events of a response stream
ChunkDone == <<123, 34, 114, 101, 115, 117, 108, 116, 34, 58, 34, 100, 111, 110, 101, 34, 125>> (* {\"result\":\"done\"} *)
\* {"step": [1, "\u00e9"]} as UTF-8
ChunkStep == <<123, 34, 115, 116, 101, 112, 34, 58, 32, 91, 49, 44, 32, 34, 195, 169, 34, 93, 125>>
ChunkTruncated == <<123, 34, 114, 101, 115, 117, 108, 116, 34, 58>> (* {\"result\": *)
ChunkNotUtf8 == <<123, 255, 125>>
Fragments ==
  {[hasChunk |-> FALSE, hasBytes |-> FALSE, bytes |-> <<>>],
   [hasChunk |-> TRUE, hasBytes |-> FALSE, bytes |-> <<>>],
   [hasChunk |-> TRUE, hasBytes |-> TRUE, bytes |-> <<>>],
   [hasChunk |-> TRUE, hasBytes |-> TRUE, bytes |-> ChunkDone],
   [hasChunk |-> TRUE, hasBytes |-> TRUE, bytes |-> ChunkStep],
   [hasChunk |-> TRUE, hasBytes |-> TRUE, bytes |-> ChunkTruncated],
   [hasChunk |-> TRUE, hasBytes |-> TRUE, bytes |-> ChunkNotUtf8]}

\* The exception a stream raises while it is iterated
StreamError ==
  [type |-> "EventStreamError",
   msg |-> <<65, 110, 32, 101, 114, 114, 111, 114, 32, 111, 99, 99, 117, 114, 114, 101, 100, 32, 40, 116, 104, 114, 111, 116, 116, 108, 105, 110, 103, 69, 120, 99, 101, 112, 116, 105, 111, 110, 41, 32, 119, 104, 101, 110, 32, 99, 97, 108, 108, 105, 110, 103, 32, 116, 104, 101, 32, 73, 110, 118, 111, 107, 101, 65, 103, 101, 110, 116, 32, 111, 112, 101, 114, 97, 116, 105, 111, 110, 58, 32, 115, 108, 111, 119, 32, 100, 111, 119, 110>> (* An error occurred (throttlingException) when calling the InvokeAgent operation: slow down *)]

NoRemote == [invoke |-> NoOutcome, frags |-> <<>>, end |-> "open"]
NoFirst ==
  [event |-> Unset, body |-> Unset, calls |-> <<>>, ret |-> Unset, remote |-> NoRemote]

\* ------------------------------------------------------------------------
\* The state of one invocation of lambda_handler.

VARIABLES
  event,              \* the handler's argument
  environ,            \* os.environ
  gateway,            \* the payload text and encoding the event was built from
  pc,                 \* the statement the handler is at
  body,               \* the decoded payload
  prompt,
  agentcore_payload,
  runtime_arn,
  response,           \* what client.invoke_agent returned
  result,
  exc,                \* the exception raised inside the try block
  ret,                \* the value the handler returned
  calls,              \* the calls of client.invoke_agent, in order
  remote,             \* what the remote client did: its answer and the stream's events
  failedAt,           \* the statement that raised
  exit,               \* the return statement taken
  returns,            \* how many values the handler has returned
  escaped,            \* an exception left the handler
  invocation,         \* 1, or 2 for a second delivery of the same payload
  first               \* the first delivery's outcome, for the second

vars ==
  <<event, environ, gateway, pc, body, prompt, agentcore_payload, runtime_arn, response,
    result, exc, ret, calls, remote, failedAt, exit, returns, escaped, invocation, first>>

\* The locals and the record of an invocation that has not started
Fresh ==
  /\ pc = "start"
  /\ body = Unset
  /\ prompt = Unset
  /\ agentcore_payload = Unset
  /\ runtime_arn = Unset
  /\ response = NoOutcome
  /\ result = Unset
  /\ exc = NoExc
  /\ ret = Unset
  /\ calls = <<>>
  /\ remote = NoRemote
  /\ failedAt = ""
  /\ exit = ""
  /\ returns = 0
  /\ escaped = FALSE

Init ==
  /\ \/ \E text \in PayloadTexts, mode \in {"plain", "base64"} :
          /\ gateway = [text |-> text, mode |-> mode]
          /\ event = Envelope(text, mode)
     \/ \E e \in OtherEvents :
          /\ gateway = NoGateway
          /\ event = e
  /\ environ \in Environs
  /\ invocation = 1
  /\ first = NoFirst
  /\ Fresh

\* An exception raised at the current statement: control passes to line 87
RaiseAt(e) ==
  /\ exc' = e
  /\ failedAt' = pc
  /\ pc' = "except"

\* Lines 29-36
ParseBody ==
  /\ pc = "start"
  /\ LET r == ParseBodyResult(event)
     IN  IF r.ok
           THEN /\ body' = r.val
                /\ pc' = "parsed"
                /\ UNCHANGED <<exc, failedAt>>
           ELSE /\ RaiseAt(r.exc)
                /\ UNCHANGED body
  /\ UNCHANGED <<event, environ, gateway, prompt, agentcore_payload, runtime_arn, response,
                 result, ret, calls, remote, exit, returns, escaped, invocation, first>>

\* Lines 39-45
ExtractPrompt ==
  /\ pc = "parsed"
  /\ LET r == PromptResult(body)
     IN  IF ~r.ok
           THEN /\ RaiseAt(r.exc)
                /\ UNCHANGED <<prompt, ret, exit, returns>>
           ELSE /\ prompt' = r.val
                /\ UNCHANGED <<exc, failedAt>>
                /\ IF ~Truthy(r.val)
                     THEN /\ ret' = MissingPromptResponse
                          /\ exit' = "validation"
                          /\ returns' = returns + 1
                          /\ pc' = "done"
                     ELSE /\ pc' = "validated"
                          /\ UNCHANGED <<ret, exit, returns>>
  /\ UNCHANGED <<event, environ, gateway, body, agentcore_payload, runtime_arn, response,
                 result, calls, remote, escaped, invocation, first>>

\* Lines 47-57
BuildPayload ==
  /\ pc = "validated"
  /\ agentcore_payload' = AgentcorePayload(body, prompt)
  /\ pc' = "built"
  /\ UNCHANGED <<event, environ, gateway, body, prompt, runtime_arn, response, result, exc,
                 ret, calls, remote, failedAt, exit, returns, escaped, invocation, first>>

\* Line 60
ReadRuntimeArn ==
  /\ pc = "built"
  /\ LET r == RuntimeArnResult(environ)
     IN  IF r.ok
           THEN /\ runtime_arn' = r.val
                /\ pc' = "arn"
                /\ UNCHANGED <<exc, failedAt>>
           ELSE /\ RaiseAt(r.exc)
                /\ UNCHANGED runtime_arn
  /\ UNCHANGED <<event, environ, gateway, body, prompt, agentcore_payload, response, result,
                 ret, calls, remote, exit, returns, escaped, invocation, first>>

\* A second delivery meets the remote behaviour of the first, as far as the
\* first went
ReplayInvoke == invocation = 2 /\ first.remote.invoke.kind # "none"
ReplayStream ==
  /\ invocation = 2
  /\ first.remote.invoke.kind = "response"
  /\ first.remote.invoke.completion

\* Lines 62-65: the one remote call; it raises or returns
InvokeAgent ==
  /\ pc = "arn"
  /\ calls' = Append(calls, InvokeArguments(runtime_arn, agentcore_payload))
  /\ \E o \in (IF ReplayInvoke THEN {first.remote.invoke} ELSE InvokeOutcomes) :
       /\ remote' = [remote EXCEPT !.invoke = o]
       /\ IF o.kind = "raise"
            THEN /\ RaiseAt(o.exc)
                 /\ UNCHANGED response
            ELSE /\ response' = o
                 /\ pc' = "invoked"
                 /\ UNCHANGED <<exc, failedAt>>
  /\ UNCHANGED <<event, environ, gateway, body, prompt, agentcore_payload, runtime_arn,
                 result, ret, exit, returns, escaped, invocation, first>>

\* The stream is never iterated
BeginDrainSkip ==
  /\ pc = "invoked"
  /\ result' = VDict(<<>>)
  /\ pc' = "success"
  /\ UNCHANGED <<event, environ, gateway, body, prompt, agentcore_payload, runtime_arn,
                 response, exc, ret, calls, remote, failedAt, exit, returns, escaped,
                 invocation, first>>

\* Lines 68-69: result = {}, and whether the response carries a stream
BeginDrain ==
  /\ pc = "invoked"
  /\ result' = VDict(<<>>)
  /\ pc' = IF response.completion THEN "draining" ELSE "success"
  /\ UNCHANGED <<event, environ, gateway, body, prompt, agentcore_payload, runtime_arn,
                 response, exc, ret, calls, remote, failedAt, exit, returns, escaped,
                 invocation, first>>

\* The events the stream may yield next
NextFragments ==
  LET n == Len(remote.frags)
  IN  IF n >= MaxFragments THEN {}
      ELSE IF ~ReplayStream THEN Fragments
      ELSE IF n < Len(first.remote.frags) THEN {first.remote.frags[n + 1]}
      ELSE IF first.remote.end = "open" THEN Fragments
      ELSE {}

\* How the stream may end now
NextEnds ==
  IF ~ReplayStream THEN {"stop", "raise"}
  ELSE IF Len(remote.frags) < Len(first.remote.frags) THEN {}
  ELSE IF first.remote.end = "open" THEN {"stop", "raise"}
  ELSE {first.remote.end}

\* Lines 71-75: one pass of the for loop over response['completion']
DrainFragment ==
  /\ pc = "draining"
  /\ \E frag \in NextFragments :
       /\ remote' = [remote EXCEPT !.frags = Append(@, frag)]
       /\ LET r == FragmentResult(frag, result)
          IN  IF r.ok
                THEN /\ result' = r.val
                     /\ UNCHANGED <<pc, exc, failedAt>>
                ELSE /\ RaiseAt(r.exc)
                     /\ UNCHANGED result
  /\ UNCHANGED <<event, environ, gateway, body, prompt, agentcore_payload, runtime_arn,
                 response, ret, calls, exit, returns, escaped, invocation, first>>

\* Line 71: the stream is exhausted and the loop ends
DrainStop ==
  /\ pc = "draining"
  /\ "stop" \in NextEnds
  /\ remote' = [remote EXCEPT !.end = "stop"]
  /\ pc' = "success"
  /\ UNCHANGED <<event, environ, gateway, body, prompt, agentcore_payload, runtime_arn,
                 response, result, exc, ret, calls, failedAt, exit, returns, escaped,
                 invocation, first>>

\* Line 71: the stream raises while it is iterated
DrainRaise ==
  /\ pc = "draining"
  /\ "raise" \in NextEnds
  /\ remote' = [remote EXCEPT !.end = "raise"]
  /\ RaiseAt(StreamError)
  /\ UNCHANGED <<event, environ, gateway, body, prompt, agentcore_payload, runtime_arn,
                 response, result, ret, calls, exit, returns, escaped, invocation, first>>

\* Lines 78-85
ReturnSuccess ==
  /\ pc = "success"
  /\ ret' = SuccessResponse(result)
  /\ exit' = "success"
  /\ returns' = returns + 1
  /\ pc' = "done"
  /\ UNCHANGED <<event, environ, gateway, body, prompt, agentcore_payload, runtime_arn,
                 response, result, exc, calls, remote, failedAt, escaped, invocation, first>>

\* Lines 87-93
HandleException ==
  /\ pc = "except"
  /\ IF Catches(exc)
       THEN /\ ret' = ErrorResponse(exc)
            /\ exit' = "except"
            /\ returns' = returns + 1
            /\ UNCHANGED escaped
       ELSE /\ escaped' = TRUE
            /\ UNCHANGED <<ret, exit, returns>>
  /\ pc' = "done"
  /\ UNCHANGED <<event, environ, gateway, body, prompt, agentcore_payload, runtime_arn,
                 response, result, exc, calls, remote, failedAt, invocation, first>>

Next ==
  \/ ParseBody
  \/ ExtractPrompt
  \/ BuildPayload
  \/ ReadRuntimeArn
  \/ InvokeAgent
  \/ BeginDrain
  \/ DrainFragment
  \/ DrainStop
  \/ DrainRaise
  \/ ReturnSuccess
  \/ HandleException

Spec == Init /\ [][Next]_vars

\* The gateway delivers the same payload a second time in the other encoding,
\* after the first invocation has returned
Redeliver ==
  /\ pc = "done"
  /\ invocation = 1
  /\ gateway.mode \in {"plain", "base64"}
  /\ first' = [event |-> event, body |-> body, calls |-> calls, ret |-> ret,
               remote |-> remote]
  /\ invocation' = 2
  /\ gateway' = [gateway EXCEPT !.mode = IF @ = "plain" THEN "base64" ELSE "plain"]
  /\ event' = Envelope(gateway.text, gateway'.mode)
  /\ pc' = "start"
  /\ body' = Unset
  /\ prompt' = Unset
  /\ agentcore_payload' = Unset
  /\ runtime_arn' = Unset
  /\ response' = NoOutcome
  /\ result' = Unset
  /\ exc' = NoExc
  /\ ret' = Unset
  /\ calls' = <<>>
  /\ remote' = NoRemote
  /\ failedAt' = ""
  /\ exit' = ""
  /\ returns' = 0
  /\ escaped' = FALSE
  /\ UNCHANGED environ

NextTwice == Next \/ Redeliver

SpecTwice == Init /\ [][NextTwice]_vars

\* ------------------------------------------------------------------------
\* Properties.

Done == pc = "done"

\* The fields of a returned response
StatusOf(r) == DictGet(r, KStatusCode, VNone)[2]
BodyOf(r) == DictGet(r, KBody, VNone)[2]
Returned(code) == Done /\ ret[1] = "dict" /\ StatusOf(ret) = code

\* The decoded payload is a mapping, with or without a truthy prompt
PayloadIsMapping == body[1] = "dict"
PromptGiven == PayloadIsMapping /\ Truthy(DictGet(body, KPrompt, VNone))

\* A stream event that carries a non-empty chunk
NonEmpty(frag) == frag.hasChunk /\ frag.hasBytes /\ Len(frag.bytes) > 0

\* The bytes are UTF-8 JSON
ValidChunk(b) == LET d == Utf8Decode(b) IN d.ok /\ JsonLoadsStr(d.val).ok
ChunkValue(b) == JsonLoadsStr(Utf8Decode(b).val).val

NonEmptyAt == {i \in 1..Len(remote.frags) : NonEmpty(remote.frags[i])}
BadChunkAt == {i \in NonEmptyAt : ~ValidChunk(remote.frags[i].bytes)}

\* The remote call returned, its stream, if any, did not raise, and the
\* non-empty chunks it delivered are all UTF-8 JSON
RemoteAnsweredWell ==
  /\ remote.invoke.kind = "response"
  /\ remote.end # "raise"
  /\ BadChunkAt = {}

\* The handler is at a statement from which it can take a step
CanStep ==
  \/ pc \in {"start", "parsed", "validated", "built", "arn", "invoked", "success", "except"}
  \/ pc = "draining" /\ (NextFragments # {} \/ NextEnds # {})

\* C1: every invocation ends with exactly one returned response of the shape
\* {statusCode, headers, body} whose statusCode is 200, 400 or 500: no exception
\* leaves the handler, nothing is returned before the end, and a handler that
\* has not returned can take a step.
C1_ExactlyOneResponse ==
  /\ ~escaped
  /\ returns = (IF Done THEN 1 ELSE 0)
  /\ ~Done => (ret[1] = "unset" /\ CanStep)
  /\ Done =>
       /\ ret[1] = "dict"
       /\ [i \in 1..Len(ret[2]) |-> ret[2][i][1]] = <<KStatusCode, KHeaders, KBody>>
       /\ DictGet(ret, KStatusCode, VNone)[1] = "int"
       /\ StatusOf(ret) \in {200, 400, 500}
       /\ DictGet(ret, KHeaders, VNone)[1] = "dict"
       /\ DictGet(ret, KBody, VNone)[1] = "str"

\* An invocation that returned 200, one that returned 400 and one that returned 500
\* are all reached; this one went through the generic handler
C1_Witness == Returned(500) /\ returns = 1 /\ exit = "except" /\ failedAt = "draining"

\* C2: if client.invoke_agent raises, the handler returns statusCode 500 with
\* the body the JSON object {"error": <the exception's message>}, and no
\* exception escapes.
C2_RemoteRaiseIs500 ==
  (Done /\ remote.invoke.kind = "raise") =>
    /\ ~escaped
    /\ Returned(500)
    /\ LET b == JsonLoadsStr(BodyOf(ret))
       IN  b.ok /\ b.val = VDict(<< <<<<101, 114, 114, 111, 114>> (* error *), VStr(remote.invoke.exc.msg)>> >>)

C2_Witness ==
  /\ Returned(500)
  /\ remote.invoke.kind = "raise"
  /\ remote.invoke.exc.type = "ValueError"
  /\ Len(calls) = 1

\* C3 as stated: for every valid payload containing prompt the status is 200
\* and the body is valid JSON.
C3_AlwaysOk ==
  (Done /\ PromptGiven) => Returned(200) /\ JsonLoadsStr(BodyOf(ret)).ok

\* C3 amended: for every valid payload containing prompt, when the runtime
\* identifier is configured, the remote call returns, and its stream ends
\* without raising after non-empty chunks that are all UTF-8 JSON, the status
\* is 200 and the body is valid JSON.
C3_OkWhenRemoteAnswersWell ==
  (Done /\ PromptGiven /\ HasKey(environ, KRuntimeArn) /\ RemoteAnsweredWell) =>
    Returned(200) /\ JsonLoadsStr(BodyOf(ret)).ok

C3_Witness ==
  /\ Returned(200)
  /\ PromptGiven
  /\ RemoteAnsweredWell
  /\ Len(remote.frags) = 2
  /\ ~remote.frags[1].hasBytes /\ remote.frags[1].hasChunk
  /\ remote.frags[2].bytes = ChunkStep

\* The response of the validation return, as the specification words it
C4_Response ==
  VDict(<< <<<<115, 116, 97, 116, 117, 115, 67, 111, 100, 101>> (* statusCode *), VInt(400)>>,
           <<<<104, 101, 97, 100, 101, 114, 115>> (* headers *), VDict(<< <<<<67, 111, 110, 116, 101, 110, 116, 45, 84, 121, 112, 101>> (* Content-Type *), VStr(<<97, 112, 112, 108, 105, 99, 97, 116, 105, 111, 110, 47, 106, 115, 111, 110>> (* application/json *))>> >>)>>,
           <<<<98, 111, 100, 121>> (* body *), VStr(<<123, 34, 101, 114, 114, 111, 114, 34, 58, 32, 34, 77, 105, 115, 115, 105, 110, 103, 32, 114, 101, 113, 117, 105, 114, 101, 100, 32, 102, 105, 101, 108, 100, 58, 32, 112, 114, 111, 109, 112, 116, 34, 125>> (* {\"error\": \"Missing required field: prompt\"} *))>> >>)

\* C4: for every decoded payload whose prompt is missing or falsy the handler
\* returns exactly statusCode 400, headers {Content-Type: application/json} and
\* body {"error": "Missing required field: prompt"}, from the validation
\* return and not from the generic handler.  A decoded payload that is no
\* mapping (the JSON texts [] and null) carries no prompt either.
C4_MissingPromptIs400 ==
  (Done /\ body[1] # "unset" /\ ~PromptGiven) =>
    /\ ret = C4_Response
    /\ exit = "validation"
    /\ exc = NoExc

\* The same for the payloads that are mappings, which is what line 39 handles
C4_MappingWithoutPromptIs400 ==
  (Done /\ PayloadIsMapping /\ ~PromptGiven) =>
    /\ ret = C4_Response
    /\ exit = "validation"
    /\ exc = NoExc
    /\ failedAt = ""

\* C5: the upstream request is {input: {prompt, permission_mode, allowed_tools}}
\* with the caller's prompt, the caller's permission_mode if supplied and
\* "acceptEdits" otherwise, the caller's allowed_tools if supplied and the
\* eight-tool string otherwise, whatever the supplied values are; it is sent to
\* the configured runtime, for every payload that passes validation.
C5_Expected ==
  VDict(<< <<<<105, 110, 112, 117, 116>> (* input *),
             VDict(<< <<<<112, 114, 111, 109, 112, 116>> (* prompt *), DictGet(body, <<112, 114, 111, 109, 112, 116>> (* prompt *), VNone)>>,
                      <<<<112, 101, 114, 109, 105, 115, 115, 105, 111, 110, 95, 109, 111, 100, 101>> (* permission_mode *),
                        IF HasKey(body, <<112, 101, 114, 109, 105, 115, 115, 105, 111, 110, 95, 109, 111, 100, 101>> (* permission_mode *))
                          THEN DictGet(body, <<112, 101, 114, 109, 105, 115, 115, 105, 111, 110, 95, 109, 111, 100, 101>> (* permission_mode *), VNone)
                          ELSE VStr(<<97, 99, 99, 101, 112, 116, 69, 100, 105, 116, 115>> (* acceptEdits *))>>,
                      <<<<97, 108, 108, 111, 119, 101, 100, 95, 116, 111, 111, 108, 115>> (* allowed_tools *),
                        IF HasKey(body, <<97, 108, 108, 111, 119, 101, 100, 95, 116, 111, 111, 108, 115>> (* allowed_tools *))
                          THEN DictGet(body, <<97, 108, 108, 111, 119, 101, 100, 95, 116, 111, 111, 108, 115>> (* allowed_tools *), VNone)
                          ELSE VStr(<<66, 97, 115, 104, 44, 82, 101, 97, 100, 44, 87, 114, 105, 116, 101, 44, 82, 101, 112, 108, 97, 99, 101, 44, 83, 101, 97, 114, 99, 104, 44, 76, 105, 115, 116, 44, 87, 101, 98, 70, 101, 116, 99, 104, 44, 65, 115, 107, 70, 111, 108, 108, 111, 119, 117, 112>> (* Bash,Read,Write,Replace,Search,List,WebFetch,AskFollowup *))>> >>)>> >>)

C5_UpstreamRequest ==
  /\ Len(calls) >= 1 =>
       /\ PromptGiven
       /\ calls[1].agentRuntimeArn = DictGet(environ, KRuntimeArn, VNone)
       /\ LET sent == JsonLoadsStr(calls[1].inputText)
          IN  sent.ok /\ sent.val = C5_Expected
  /\ (Done /\ PromptGiven /\ HasKey(environ, KRuntimeArn)) => Len(calls) = 1

C5_Witness ==
  /\ Len(calls) = 1
  /\ HasKey(body, KPermissionMode)
  /\ DictGet(body, KPermissionMode, Unset) = VNone
  /\ gateway.mode = "base64"

\* C6: when every non-empty chunk of the stream is valid JSON, the success body
\* is the decoding of the last event that carries a non-empty chunk, wherever
\* the empty and chunk-less events are; with no such event, or no stream, the
\* body is the empty mapping; the status is 200.
C6_LastChunkWins ==
  (Done /\ RemoteAnsweredWell) =>
    /\ Returned(200)
    /\ LET b == JsonLoadsStr(BodyOf(ret))
           last == CHOOSE i \in NonEmptyAt : \A j \in NonEmptyAt : j <= i
       IN  /\ b.ok
           /\ b.val = IF NonEmptyAt = {} THEN VDict(<<>>)
                      ELSE ChunkValue(remote.frags[last].bytes)

C6_Witness ==
  /\ Returned(200)
  /\ Len(remote.frags) = 3
  /\ remote.frags[1].bytes = ChunkStep
  /\ remote.frags[2].bytes = ChunkDone
  /\ ~NonEmpty(remote.frags[3])
  /\ JsonLoadsStr(BodyOf(ret)).val = ChunkValue(ChunkDone)
  /\ BodyOf(ret) # ChunkDone

\* C7: a payload's JSON carried base64-encoded with isBase64Encoded true decodes
\* to the same payload as the same JSON carried plainly, and the two
\* invocations, met by the same remote behaviour, send the same upstream
\* request and return the same response.  A JSON text does not begin with a
\* byte order mark (U+FEFF, 65279): json.loads drops one from bytes and
\* rejects one in a str, so a body that begins with one is told apart.
C7_Base64SameAsPlain ==
  (gateway.mode \in {"plain", "base64"} /\ gateway.text[1] # 65279) =>
    /\ (gateway.mode = "base64" /\ pc # "start") =>
         LET r == JsonLoadsStr(gateway.text)
         IN  IF r.ok THEN body = r.val /\ failedAt # "start"
             ELSE body = Unset /\ failedAt = "start" /\ exc = r.exc
    /\ (invocation = 2 /\ pc # "start") => body = first.body
    /\ (invocation = 2 /\ Done /\ remote = first.remote) =>
         calls = first.calls /\ ret = first.ret

C7_Witness ==
  /\ invocation = 2
  /\ Returned(200)
  /\ gateway.text = TextAccent
  /\ gateway.mode = "plain"
  /\ first.event = Envelope(TextAccent, "base64")
  /\ Len(remote.frags) = 2
  /\ ret = first.ret
  /\ Len(calls) = 1

\* C8: if decoding the inbound envelope fails, the response is 500 from the
\* generic handler and never 400; the prompt was never looked at and the
\* remote client never called.
C8_DecodeFailureIs500 ==
  (Done /\ ~ParseBodyResult(event).ok) =>
    /\ Returned(500)
    /\ exit = "except"
    /\ failedAt = "start"
    /\ prompt = Unset
    /\ calls = <<>>

C8_Witness ==
  /\ Returned(500)
  /\ failedAt = "start"
  /\ exc.type = "JSONDecodeError"
  /\ gateway.text = TextTruncated
  /\ gateway.mode = "base64"

\* C9: if an event of the stream carries a non-empty chunk that is not UTF-8
\* JSON, the response is 500 with an error body, wherever the chunk is and
\* whatever was decoded before it; no earlier result is in the body.
C9_BadChunkIs500 ==
  (Done /\ BadChunkAt # {}) =>
    /\ Returned(500)
    /\ exit = "except"
    /\ LET b == JsonLoadsStr(BodyOf(ret))
       IN  /\ b.ok
           /\ b.val[1] = "dict"
           /\ [i \in 1..Len(b.val[2]) |-> b.val[2][i][1]] = <<<<101, 114, 114, 111, 114>> (* error *)>>
           /\ b.val[2][1][2] = VStr(exc.msg)
    /\ exc.type \in {"JSONDecodeError", "UnicodeDecodeError"}

C9_Witness ==
  /\ Returned(500)
  /\ Len(remote.frags) = 3
  /\ remote.frags[1].bytes = ChunkDone
  /\ remote.frags[2].bytes = ChunkStep
  /\ remote.frags[3].bytes = ChunkNotUtf8
  /\ result = ChunkValue(ChunkStep)

\* The order of the handler's statements
Rank(p) ==
  CASE p = "start" -> 0
    [] p = "parsed" -> 1
    [] p = "validated" -> 2
    [] p = "built" -> 3
    [] p = "arn" -> 4
    [] p = "invoked" -> 5
    [] p = "draining" -> 6
    [] p = "success" -> 7
    [] p = "except" -> 8
    [] OTHER -> 9

C10_Step ==
  /\ Len(calls') <= 1
  /\ calls' # calls =>
       /\ pc = "arn"
       /\ PromptGiven /\ prompt = DictGet(body, KPrompt, VNone)
       /\ failedAt = "" /\ exit = ""
  /\ (exit' = "validation" \/ failedAt' \in {"start", "parsed"}) => calls' = <<>>
  /\ (pc' = "done" /\ ret'[1] = "dict" /\ StatusOf(ret') = 200) =>
       /\ pc = "success"
       /\ Len(calls') = 1
       /\ response.completion => remote'.end = "stop"
  /\ \/ Rank(pc') > Rank(pc)
     \/ /\ pc = "draining" /\ pc' = "draining"
        /\ Len(remote'.frags) = Len(remote.frags) + 1

\* C10: within one invocation the remote client is invoked at most once, only
\* after decoding and prompt validation have succeeded, never on the 400 path
\* and never after an inbound decode failure; 200 is returned only after the
\* stream has ended; every step moves forward, the loop over the stream taking
\* one more event each pass.
C10_SingleLinearPass == [][C10_Step]_vars

C10_Witness ==
  /\ Returned(200)
  /\ Len(calls) = 1
  /\ Len(remote.frags) = 3
  /\ remote.end = "stop"
  /\ \A i \in 1..3 : NonEmpty(remote.frags[i])

====
